---- MODULE Spec2Model ----
(***************************************************************************)
(* A model of recodextech/container (container.go): the registry           *)
(* (bindings, moduleConfigs), the lifecycle calls Init, Start and          *)
(* Shutdown, the stop-signal watcher goroutines and the goroutines that    *)
(* run the modules.  Caller goroutines are the members of Tasks; each call *)
(* is a sequence of steps, so that calls of different goroutines           *)
(* interleave the way the scheduler allows.                                *)
(***************************************************************************)
EXTENDS Integers, Sequences, FiniteSets, TLC

\* ------------------------------------------------------------- bounds

MaxList == 3        \* longest module list of a call taken on its own
MaxBatch == 2       \* longest batch handed to SetModuleGlobalConfig
MaxStarts == 1      \* Start calls made on one container
MaxShutdowns == 2   \* Shutdown calls made on one container

\* ------------------------------------------------------------- domains

Tasks == {"t1", "t2"}
Names == {"a", "b"}
\* A config key may be the string some module is bound under.
Keys == {"db", "a"}
Signals == {"sigint", "sigterm"}
Nil == "nil"

\* The objects a caller binds, told apart by the interfaces they satisfy.
Objects == {"svc", "srv", "db", "cfg"}

Runnable(o) == o \in {"svc", "srv"}

\* Runnable embeds Initable, so every Runnable object is Initable.
Initable(o) == Runnable(o) \/ o = "db"

Stoppable(o) == o \in {"svc", "db"}

\* Config values: a Configer that validates, a Configer the provider
\* rejects, and a value that is no Configer at all.
Values == {"ok", "bad", "raw"}

Configer(v) == v \in {"ok", "bad"}

ModuleConfig == [Key : Keys, Value : Values]

SeqsUpTo(S, n) == UNION {[1..k -> S] : k \in 0..n}

StoppedCap == 1

NoRet == [op |-> "none", arg |-> Nil, val |-> Nil]

\* ------------------------------------------------------------- state

VARIABLES
  bindings,       \* c.bindings
  moduleConfigs,  \* c.moduleConfigs
  stopSigs,       \* c.stopSigs: the signals registered
  sig,            \* each stop signal's channel: idle, value, drained, closed
  waiting,        \* per signal, the watcher goroutines blocked on <-ch
  sending,        \* watcher goroutines at c.stopped <- struct{}{}
  stopped,        \* items buffered in c.stopped
  running,        \* the goroutines of go func(r Runnable) that have not ended
  stopCalls,      \* the names of the modules whose Stop has been invoked
  fatal,          \* "none", or why the process died
  pc,             \* where each caller goroutine is
  args,           \* the arguments of its call
  idx,            \* the loop index of its call (1-based)
  seen,           \* the objects its loop has looked up, in order
  log,            \* the list positions whose module it invoked or launched
  ret,            \* what its last call returned
  racy,           \* goroutines whose map access overlaps a conflicting one
  raced,          \* a conflicting overlap has happened
  lastBind,       \* per name, the object of the latest Bind call completed
  cfgBase,        \* the config map when the latest SetModuleGlobalConfig began
  setKeys,        \* the keys of the entries handed to SetModuleGlobalConfig
  lock,           \* c.lock: "free", or the goroutine that holds it
  inner,          \* the arguments of the registry call a module's Init is in
  nStarts,        \* Start calls made
  nShutdowns,     \* Shutdown calls made
  shutdownsDone,  \* Shutdown calls that finished their stop loop
  sigSends,       \* sends on c.stopped completed by watchers
  shutSends       \* sends on c.stopped completed by Shutdown

vars == <<bindings, moduleConfigs, stopSigs, sig, waiting, sending, stopped,
          running, stopCalls, fatal, pc, args, idx, seen, log, ret, racy, raced,
          lastBind, cfgBase, setKeys, lock, inner, nStarts, nShutdowns, shutdownsDone, sigSends,
          shutSends>>

nestVars == <<lock, inner>>
registryVars == <<bindings, moduleConfigs, lastBind, cfgBase, setKeys, nestVars>>
channelVars == <<stopSigs, sig, waiting, sending, stopped, sigSends, shutSends>>
runVars == <<running, stopCalls>>
callVars == <<nStarts, nShutdowns, shutdownsDone>>
frameVars == <<args, idx, seen, log>>

\* ------------------------------------------------------------- NewContainer

\* The state NewContainer builds, after the caller has set the configs of
\* one of the maps in configs, bound the modules of one of the maps in bound
\* and registered one of the sets of stop signals in sigs.
Configured(bound, sigs, configs) ==
  /\ bindings \in bound
  /\ moduleConfigs \in configs
  /\ stopSigs \in sigs
  /\ sig = [s \in Signals |-> "idle"]
  /\ waiting = [s \in Signals |-> 0]
  /\ sending = 0
  /\ stopped = 0
  /\ running = 0
  /\ stopCalls = {}
  /\ fatal = "none"
  /\ pc = [t \in Tasks |-> "idle"]
  /\ args = [t \in Tasks |-> <<>>]
  /\ idx = [t \in Tasks |-> 0]
  /\ seen = [t \in Tasks |-> <<>>]
  /\ log = [t \in Tasks |-> <<>>]
  /\ ret = [t \in Tasks |-> NoRet]
  /\ racy = {}
  /\ raced = FALSE
  /\ lastBind = bindings
  /\ cfgBase = [k \in Keys |-> Nil]
  /\ setKeys = {k \in Keys : moduleConfigs[k] # Nil}
  /\ lock = "free"
  /\ inner = [t \in Tasks |-> <<>>]
  /\ nStarts = 0
  /\ nShutdowns = 0
  /\ shutdownsDone = 0
  /\ sigSends = 0
  /\ shutSends = 0

Container(bound, sigs) == Configured(bound, sigs, {[k \in Keys |-> Nil]})

NewContainer == Container({[n \in Names |-> Nil]}, {{}})

\* ------------------------------------------------------------- map accesses

\* The lock field is never taken: a map access is a span of time that
\* nothing keeps other goroutines out of.
BindingsReaders == {"resolve_rd", "init_rd", "start_rd", "shut_rd", "inner_resolve_rd"}
BindingsWriters == {"bind_wr", "inner_bind_wr"}
ConfigsReaders == {"getcfg_rd", "inner_getcfg_rd"}
ConfigsWriters == {"setcfg_wr"}

InBindings(t) == pc[t] \in BindingsReaders \cup BindingsWriters
InConfigs(t) == pc[t] \in ConfigsReaders \cup ConfigsWriters

\* The goroutines whose access in progress conflicts with t entering
\* (a map is safe for concurrent reads only).
Conflicts(t, readers, writers, isWrite) ==
  {u \in Tasks \ {t} :
     \/ pc[u] \in writers
     \/ isWrite /\ pc[u] \in readers}

Enter(t, readers, writers, isWrite) ==
  LET c == Conflicts(t, readers, writers, isWrite) IN
  /\ racy' = IF c = {} THEN racy ELSE racy \cup c \cup {t}
  /\ raced' = (raced \/ c # {})

Leave(t) == racy' = racy \ {t}

\* What a racing read may yield: the runtime promises nothing.
ReadOf(t, value, domain) == IF t \in racy THEN domain ELSE {value}

\* The runtime's check ("concurrent map writes", "concurrent map read and
\* map write") is best effort: it may throw while accesses overlap.
MapFault ==
  /\ fatal = "none"
  /\ racy # {}
  /\ fatal' = "MapRace"
  /\ UNCHANGED <<registryVars, channelVars, runVars, callVars, frameVars,
                 pc, ret, racy, raced>>

Panic(t, why) ==
  /\ fatal' = why
  /\ pc' = [pc EXCEPT ![t] = "panic"]

\* ------------------------------------------------------------- Bind

BindCall(t, n, o) ==
  /\ fatal = "none" /\ pc[t] = "idle"
  /\ pc' = [pc EXCEPT ![t] = "bind_wr"]
  /\ args' = [args EXCEPT ![t] = <<n, o>>]
  /\ Enter(t, BindingsReaders, BindingsWriters, TRUE)
  /\ ret' = [ret EXCEPT ![t] = NoRet]
  /\ UNCHANGED <<registryVars, channelVars, runVars, callVars, idx, seen, log,
                 fatal>>

\* A Bind that keeps the object a name already has.
BindStoreKeepFirst(m, typ, obj) == IF m[typ] = Nil THEN [m EXCEPT ![typ] = obj] ELSE m

\* c.bindings[typ] = obj
BindStore(m, typ, obj) == [m EXCEPT ![typ] = obj]

\* A call returns: its frame is gone, its result is the caller's.
Return(t, op, arg, val) ==
  /\ pc' = [pc EXCEPT ![t] = "idle"]
  /\ ret' = [ret EXCEPT ![t] = [op |-> op, arg |-> arg, val |-> val]]
  /\ args' = [args EXCEPT ![t] = <<>>]
  /\ idx' = [idx EXCEPT ![t] = 0]
  /\ seen' = [seen EXCEPT ![t] = <<>>]
  /\ log' = [log EXCEPT ![t] = <<>>]

Bind(t) ==
  /\ fatal = "none" /\ pc[t] = "bind_wr"
  /\ \E o \in ReadOf(t, args[t][2], Objects) :
       bindings' = BindStore(bindings, args[t][1], o)
  /\ lastBind' = [lastBind EXCEPT ![args[t][1]] = args[t][2]]
  /\ Return(t, "Bind", args[t][1], args[t][2])
  /\ Leave(t)
  /\ UNCHANGED <<moduleConfigs, cfgBase, setKeys, nestVars, channelVars,
                 runVars, callVars, fatal, raced>>

\* ------------------------------------------------------------- Resolve

ResolveCall(t, n) ==
  /\ fatal = "none" /\ pc[t] = "idle"
  /\ pc' = [pc EXCEPT ![t] = "resolve_rd"]
  /\ args' = [args EXCEPT ![t] = <<n>>]
  /\ Enter(t, BindingsReaders, BindingsWriters, FALSE)
  /\ ret' = [ret EXCEPT ![t] = NoRet]
  /\ UNCHANGED <<registryVars, channelVars, runVars, callVars, idx, seen,
                 log, fatal>>

\* A lookup that yields the zero value for a missing key.
LookupZeroValue(m, n) == m[n]

\* con, ok := c.bindings[name]: the object, or NotFound for a missing key.
Lookup(m, n) == IF m[n] # Nil THEN m[n] ELSE "NotFound"

Resolve(t) ==
  /\ fatal = "none" /\ pc[t] = "resolve_rd"
  /\ \E r \in ReadOf(t, Lookup(bindings, args[t][1]), Objects \cup {"NotFound"}) :
       IF r = "NotFound"
         THEN /\ Panic(t, "NotFound")
              /\ UNCHANGED <<ret, frameVars>>
         ELSE /\ Return(t, "Resolve", args[t][1], r)
              /\ UNCHANGED fatal
  /\ Leave(t)
  /\ UNCHANGED <<registryVars, channelVars, runVars, callVars,
                 raced>>

\* ------------------------------------------------------------- GetGlobalConfig

GetGlobalConfigCall(t, k) ==
  /\ fatal = "none" /\ pc[t] = "idle"
  /\ pc' = [pc EXCEPT ![t] = "getcfg_rd"]
  /\ args' = [args EXCEPT ![t] = <<k>>]
  /\ Enter(t, ConfigsReaders, ConfigsWriters, FALSE)
  /\ ret' = [ret EXCEPT ![t] = NoRet]
  /\ UNCHANGED <<registryVars, channelVars, runVars, callVars, idx, seen,
                 log, fatal>>

GetGlobalConfig(t) ==
  /\ fatal = "none" /\ pc[t] = "getcfg_rd"
  /\ \E r \in ReadOf(t, Lookup(moduleConfigs, args[t][1]), Values \cup {"NotFound"}) :
       IF r = "NotFound"
         THEN /\ Panic(t, "NotFound")
              /\ UNCHANGED <<ret, frameVars>>
         ELSE /\ Return(t, "GetGlobalConfig", args[t][1], r)
              /\ UNCHANGED fatal
  /\ Leave(t)
  /\ UNCHANGED <<registryVars, channelVars, runVars, callVars,
                 raced>>

\* ------------------------------------------------------------- SetModuleGlobalConfig

SetModuleGlobalConfigCall(t, configs) ==
  /\ fatal = "none" /\ pc[t] = "idle"
  /\ pc' = [pc EXCEPT ![t] = "setcfg_loop"]
  /\ args' = [args EXCEPT ![t] = configs]
  /\ idx' = [idx EXCEPT ![t] = 1]
  /\ cfgBase' = moduleConfigs
  /\ setKeys' = setKeys \cup {configs[i].Key : i \in 1..Len(configs)}
  /\ ret' = [ret EXCEPT ![t] = NoRet]
  /\ UNCHANGED <<bindings, moduleConfigs, lastBind, nestVars, channelVars,
                 runVars, callVars, seen, log, fatal, racy, raced>>

\* value.Value.(gocon.Configer), then the entry into the map write.
SetConfigAssert(t) ==
  /\ fatal = "none" /\ pc[t] = "setcfg_loop"
  /\ idx[t] <= Len(args[t])
  /\ IF Configer(args[t][idx[t]].Value)
       THEN /\ pc' = [pc EXCEPT ![t] = "setcfg_wr"]
            /\ Enter(t, ConfigsReaders, ConfigsWriters, TRUE)
            /\ UNCHANGED fatal
       ELSE /\ Panic(t, "NotConfiger")
            /\ UNCHANGED <<racy, raced>>
  /\ UNCHANGED <<registryVars, channelVars, runVars, callVars, frameVars, ret>>

\* c.moduleConfigs[value.Key] = value.Value
ConfigStore(m, entry, v) == [m EXCEPT ![entry.Key] = v]

SetConfigStore(t) ==
  /\ fatal = "none" /\ pc[t] = "setcfg_wr"
  /\ \E v \in ReadOf(t, args[t][idx[t]].Value, Values) :
       moduleConfigs' = ConfigStore(moduleConfigs, args[t][idx[t]], v)
  /\ idx' = [idx EXCEPT ![t] = idx[t] + 1]
  /\ pc' = [pc EXCEPT ![t] = "setcfg_loop"]
  /\ Leave(t)
  /\ UNCHANGED <<bindings, lastBind, cfgBase, setKeys, nestVars, channelVars,
                 runVars, callVars, args, seen, log, ret, fatal, raced>>

\* gocon.Load(cfgs...): the provider registers and validates each Configer
\* in turn and returns the first error.
Load(cfgs) == IF \E i \in 1..Len(cfgs) : cfgs[i].Value = "bad" THEN "error" ELSE "nil"

SetConfigLoad(t) ==
  /\ fatal = "none" /\ pc[t] = "setcfg_loop"
  /\ idx[t] > Len(args[t])
  /\ Return(t, "SetModuleGlobalConfig", Nil, Load(args[t]))
  /\ UNCHANGED <<registryVars, channelVars, runVars, callVars,
                 fatal, racy, raced>>

\* ------------------------------------------------------------- module calls

\* m := c.bindings[name]: the object, or nil for a missing key.
At(m, n) == m[n]

\* The container invokes a module's method at list position i.
Invoke(t, i) == log' = [log EXCEPT ![t] = Append(log[t], [pos |-> i, res |-> "called"])]

\* The method invoked last returns res.
Returned(t, res) ==
  log' = [log EXCEPT ![t] = [log[t] EXCEPT ![Len(log[t])].res = res]]

Results == {"nil", "error"}

\* ------------------------------------------------------------- Init

InitCall(t, modules) ==
  /\ fatal = "none" /\ pc[t] = "idle"
  /\ pc' = [pc EXCEPT ![t] = "init_loop"]
  /\ args' = [args EXCEPT ![t] = modules]
  /\ idx' = [idx EXCEPT ![t] = 1]
  /\ seen' = [seen EXCEPT ![t] = <<>>]
  /\ log' = [log EXCEPT ![t] = <<>>]
  /\ ret' = [ret EXCEPT ![t] = NoRet]
  /\ UNCHANGED <<registryVars, channelVars, runVars, callVars, fatal, racy,
                 raced>>

InitLookup(t) ==
  /\ fatal = "none" /\ pc[t] = "init_loop"
  /\ idx[t] <= Len(args[t])
  /\ pc' = [pc EXCEPT ![t] = "init_rd"]
  /\ Enter(t, BindingsReaders, BindingsWriters, FALSE)
  /\ UNCHANGED <<registryVars, channelVars, runVars, callVars, frameVars,
                 ret, fatal>>

\* An Init loop that invokes Init on whatever the name is bound to.
InitableOutcomeInvokeAll(m) == "invoke"

\* An Init loop that calls Init on what a missing key yields.
InitableOutcomeInvokeUnbound(m) == IF Initable(m) \/ m = Nil THEN "invoke" ELSE "skip"

\* in, ok := c.bindings[name].(Initable): in.Init(c) when ok, else the next
\* name.
InitableOutcome(m) == IF Initable(m) THEN "invoke" ELSE "skip"

\* An Init loop that takes c.lock before it calls in.Init(c).
AroundInitLocked(l, t) == t

\* Init calls in.Init(c) without touching c.lock.
AroundInit(l, t) == l

InitInvoke(t) ==
  /\ fatal = "none" /\ pc[t] = "init_rd"
  /\ \E m \in ReadOf(t, At(bindings, args[t][idx[t]]), Objects \cup {Nil}) :
       /\ seen' = [seen EXCEPT ![t] = Append(seen[t], m)]
       /\ IF InitableOutcome(m) = "invoke"
            THEN /\ pc' = [pc EXCEPT ![t] = "init_call"]
                 /\ lock' = AroundInit(lock, t)
                 /\ Invoke(t, idx[t])
                 /\ UNCHANGED idx
            ELSE /\ pc' = [pc EXCEPT ![t] = "init_loop"]
                 /\ idx' = [idx EXCEPT ![t] = idx[t] + 1]
                 /\ UNCHANGED <<log, lock>>
  /\ Leave(t)
  /\ UNCHANGED <<bindings, moduleConfigs, lastBind, cfgBase, setKeys, inner,
                 channelVars, runVars, callVars, args, ret, fatal, raced>>

\* ------------------------------------------------------------- registry calls made by a module's Init

\* c.Bind(n, o), called by the module whose Init the goroutine is in.
InnerBindCall(t, n, o) ==
  /\ fatal = "none" /\ pc[t] = "init_call"
  /\ pc' = [pc EXCEPT ![t] = "inner_bind_wr"]
  /\ inner' = [inner EXCEPT ![t] = <<n, o>>]
  /\ Enter(t, BindingsReaders, BindingsWriters, TRUE)
  /\ UNCHANGED <<bindings, moduleConfigs, lastBind, cfgBase, setKeys, lock,
                 channelVars, runVars, callVars, frameVars, ret, fatal>>

InnerBind(t) ==
  /\ fatal = "none" /\ pc[t] = "inner_bind_wr"
  /\ \E o \in ReadOf(t, inner[t][2], Objects) :
       bindings' = BindStore(bindings, inner[t][1], o)
  /\ lastBind' = [lastBind EXCEPT ![inner[t][1]] = inner[t][2]]
  /\ pc' = [pc EXCEPT ![t] = "init_call"]
  /\ inner' = [inner EXCEPT ![t] = <<>>]
  /\ Leave(t)
  /\ UNCHANGED <<moduleConfigs, cfgBase, setKeys, lock, channelVars, runVars,
                 callVars, frameVars, ret, fatal, raced>>

\* c.Resolve(n), called by the module whose Init the goroutine is in.
InnerResolveCall(t, n) ==
  /\ fatal = "none" /\ pc[t] = "init_call"
  /\ pc' = [pc EXCEPT ![t] = "inner_resolve_rd"]
  /\ inner' = [inner EXCEPT ![t] = <<n>>]
  /\ Enter(t, BindingsReaders, BindingsWriters, FALSE)
  /\ UNCHANGED <<bindings, moduleConfigs, lastBind, cfgBase, setKeys, lock,
                 channelVars, runVars, callVars, frameVars, ret, fatal>>

InnerResolve(t) ==
  /\ fatal = "none" /\ pc[t] = "inner_resolve_rd"
  /\ \E r \in ReadOf(t, Lookup(bindings, inner[t][1]), Objects \cup {"NotFound"}) :
       IF r = "NotFound"
         THEN /\ Panic(t, "NotFound")
              /\ UNCHANGED inner
         ELSE /\ pc' = [pc EXCEPT ![t] = "init_call"]
              /\ inner' = [inner EXCEPT ![t] = <<>>]
              /\ UNCHANGED fatal
  /\ Leave(t)
  /\ UNCHANGED <<bindings, moduleConfigs, lastBind, cfgBase, setKeys, lock,
                 channelVars, runVars, callVars, frameVars, ret, raced>>

\* c.GetGlobalConfig(k), called by the module whose Init the goroutine is in.
InnerGetConfigCall(t, k) ==
  /\ fatal = "none" /\ pc[t] = "init_call"
  /\ pc' = [pc EXCEPT ![t] = "inner_getcfg_rd"]
  /\ inner' = [inner EXCEPT ![t] = <<k>>]
  /\ Enter(t, ConfigsReaders, ConfigsWriters, FALSE)
  /\ UNCHANGED <<bindings, moduleConfigs, lastBind, cfgBase, setKeys, lock,
                 channelVars, runVars, callVars, frameVars, ret, fatal>>

InnerGetConfig(t) ==
  /\ fatal = "none" /\ pc[t] = "inner_getcfg_rd"
  /\ \E r \in ReadOf(t, Lookup(moduleConfigs, inner[t][1]), Values \cup {"NotFound"}) :
       IF r = "NotFound"
         THEN /\ Panic(t, "NotFound")
              /\ UNCHANGED inner
         ELSE /\ pc' = [pc EXCEPT ![t] = "init_call"]
              /\ inner' = [inner EXCEPT ![t] = <<>>]
              /\ UNCHANGED fatal
  /\ Leave(t)
  /\ UNCHANGED <<bindings, moduleConfigs, lastBind, cfgBase, setKeys, lock,
                 channelVars, runVars, callVars, frameVars, ret, raced>>

\* An Init loop that drops the error in.Init(c) returned.
InitOutcomeIgnoreError(err) == "next"

\* What the loop does with the error in.Init(c) returned.
InitOutcome(err) == IF err # "nil" THEN "panic" ELSE "next"

InitReturn(t) ==
  /\ fatal = "none" /\ pc[t] = "init_call"
  /\ \E err \in Results :
       /\ Returned(t, err)
       /\ IF InitOutcome(err) = "panic"
            THEN /\ Panic(t, "InitError")
                 /\ UNCHANGED idx
            ELSE /\ pc' = [pc EXCEPT ![t] = "init_loop"]
                 /\ idx' = [idx EXCEPT ![t] = idx[t] + 1]
                 /\ UNCHANGED fatal
  /\ UNCHANGED <<registryVars, channelVars, runVars, callVars, args, seen,
                 ret, racy, raced>>

InitDone(t) ==
  /\ fatal = "none" /\ pc[t] = "init_loop"
  /\ idx[t] > Len(args[t])
  /\ Return(t, "Init", Nil, Nil)
  /\ UNCHANGED <<registryVars, channelVars, runVars, callVars,
                 fatal, racy, raced>>

\* ------------------------------------------------------------- Start

\* A Start that creates no watcher.
SpawnWatchersNone(w, sigs) == w

\* for _, sig := range c.stopSigs { go func(ch) {...}(sig) }
SpawnWatchers(w, sigs) == [s \in DOMAIN w |-> IF s \in sigs THEN w[s] + 1 ELSE w[s]]

\* Where the loop over the modules goes after position i of list l.
AfterLoop(i, l, loop, after) == IF i > Len(l) THEN after ELSE loop

StartCall(t, modules) ==
  /\ fatal = "none" /\ pc[t] = "idle"
  /\ nStarts < MaxStarts
  /\ nStarts' = nStarts + 1
  /\ waiting' = SpawnWatchers(waiting, stopSigs)
  /\ pc' = [pc EXCEPT ![t] = AfterLoop(1, modules, "start_loop", "start_wait")]
  /\ args' = [args EXCEPT ![t] = modules]
  /\ idx' = [idx EXCEPT ![t] = 1]
  /\ seen' = [seen EXCEPT ![t] = <<>>]
  /\ log' = [log EXCEPT ![t] = <<>>]
  /\ ret' = [ret EXCEPT ![t] = NoRet]
  /\ UNCHANGED <<registryVars, stopSigs, sig, sending, stopped, sigSends,
                 shutSends, runVars, nShutdowns, shutdownsDone, fatal, racy,
                 raced>>

\* A Start that calls r.Run() itself and goes on when it has returned.
GoBlocksWhileRunning(r) == r > 0

\* go func(r Runnable) {...}(runnable) returns at once, whatever the
\* goroutines launched so far are doing.
GoBlocks(r) == FALSE

StartLookup(t) ==
  /\ fatal = "none" /\ pc[t] = "start_loop"
  /\ ~GoBlocks(running)
  /\ pc' = [pc EXCEPT ![t] = "start_rd"]
  /\ Enter(t, BindingsReaders, BindingsWriters, FALSE)
  /\ UNCHANGED <<registryVars, channelVars, runVars, callVars, frameVars,
                 ret, fatal>>

\* A Start that asserts the wrong interface.
StartOutcomeWrongInterface(m) == IF Stoppable(m) THEN "launch" ELSE "panic"

\* runnable, ok := m.(Runnable): panic when !ok, else go r.Run().
StartOutcome(m) == IF Runnable(m) THEN "launch" ELSE "panic"

StartLaunch(t) ==
  /\ fatal = "none" /\ pc[t] = "start_rd"
  /\ \E m \in ReadOf(t, At(bindings, args[t][idx[t]]), Objects \cup {Nil}) :
       /\ seen' = [seen EXCEPT ![t] = Append(seen[t], m)]
       /\ IF StartOutcome(m) = "launch"
            THEN /\ running' = running + 1
                 /\ Invoke(t, idx[t])
                 /\ idx' = [idx EXCEPT ![t] = idx[t] + 1]
                 /\ pc' = [pc EXCEPT ![t] =
                             AfterLoop(idx[t] + 1, args[t], "start_loop", "start_wait")]
                 /\ UNCHANGED fatal
            ELSE /\ Panic(t, "NotRunnable")
                 /\ UNCHANGED <<running, log, idx>>
  /\ Leave(t)
  /\ UNCHANGED <<registryVars, channelVars, callVars, stopCalls, args, ret,
                 raced>>

\* A Start that stops the modules it launched once it is unblocked.
AfterStoppedStopLaunched(calls, modules) ==
  calls \cup {modules[i] : i \in 1..Len(modules)}

\* After <-c.stopped Start returns: it invokes nothing on its modules.
AfterStopped(calls, modules) == calls

\* A receive that does not block on an empty channel.
CanReceiveNonBlocking(ch) == TRUE

\* <-c.stopped can proceed.
CanReceive(ch) == ch > 0

\* A send on a channel made without a buffer, no receiver taken into account.
CanSendUnbuffered(ch) == FALSE

\* c.stopped <- struct{}{} can proceed.
CanSend(ch) == ch < StoppedCap

StartReturn(t) ==
  /\ fatal = "none" /\ pc[t] = "start_wait"
  /\ CanReceive(stopped)
  /\ stopped' = stopped - 1
  /\ stopCalls' = AfterStopped(stopCalls, args[t])
  /\ Return(t, "Start", Nil, Nil)
  /\ UNCHANGED <<registryVars, stopSigs, sig, waiting, sending, sigSends,
                 shutSends, running, callVars, fatal, racy, raced>>

\* ------------------------------------------------------------- the goroutines Start creates

\* The owner of stop signal s sends one value on it, or closes it.
SignalFire(s) ==
  /\ fatal = "none"
  /\ s \in stopSigs
  /\ sig[s] = "idle"
  /\ \E how \in {"value", "closed"} : sig' = [sig EXCEPT ![s] = how]
  /\ UNCHANGED <<registryVars, stopSigs, waiting, sending, stopped, sigSends,
                 shutSends, runVars, callVars, frameVars, pc, ret, fatal, racy,
                 raced>>

\* <-ch in a watcher: one watcher takes a value sent, every watcher passes
\* a closed channel.
WatcherReceive(s) ==
  /\ fatal = "none"
  /\ waiting[s] > 0
  /\ sig[s] \in {"value", "closed"}
  /\ sig' = [sig EXCEPT ![s] = IF sig[s] = "value" THEN "drained" ELSE "closed"]
  /\ waiting' = [waiting EXCEPT ![s] = waiting[s] - 1]
  /\ sending' = sending + 1
  /\ UNCHANGED <<registryVars, stopSigs, stopped, sigSends, shutSends,
                 runVars, callVars, frameVars, pc, ret, fatal, racy, raced>>

\* c.stopped <- struct{}{} in a watcher.
WatcherSend ==
  /\ fatal = "none"
  /\ sending > 0
  /\ CanSend(stopped)
  /\ stopped' = stopped + 1
  /\ sending' = sending - 1
  /\ sigSends' = sigSends + 1
  /\ UNCHANGED <<registryVars, stopSigs, sig, waiting, shutSends, runVars,
                 callVars, frameVars, pc, ret, fatal, racy, raced>>

\* A Run goroutine that drops the error Run returned.
RunOutcomeIgnoreError(err) == "none"

\* if err := r.Run(); err != nil { panic(err) }: a Run that blocks for
\* good never takes this step.
RunOutcome(err) == IF err # "nil" THEN "RunError" ELSE "none"

RunReturn ==
  /\ fatal = "none"
  /\ running > 0
  /\ running' = running - 1
  /\ \E err \in Results : fatal' = RunOutcome(err)
  /\ UNCHANGED <<registryVars, channelVars, callVars, stopCalls, frameVars,
                 pc, ret, racy, raced>>

\* ------------------------------------------------------------- Shutdown

ShutdownCall(t, modules) ==
  /\ fatal = "none" /\ pc[t] = "idle"
  /\ nShutdowns < MaxShutdowns
  /\ nShutdowns' = nShutdowns + 1
  /\ shutdownsDone' = IF modules = <<>> THEN shutdownsDone + 1 ELSE shutdownsDone
  /\ pc' = [pc EXCEPT ![t] = AfterLoop(1, modules, "shut_loop", "shut_send")]
  /\ args' = [args EXCEPT ![t] = modules]
  /\ idx' = [idx EXCEPT ![t] = 1]
  /\ seen' = [seen EXCEPT ![t] = <<>>]
  /\ log' = [log EXCEPT ![t] = <<>>]
  /\ ret' = [ret EXCEPT ![t] = NoRet]
  /\ UNCHANGED <<registryVars, channelVars, runVars, nStarts, fatal, racy,
                 raced>>

ShutdownLookup(t) ==
  /\ fatal = "none" /\ pc[t] = "shut_loop"
  /\ pc' = [pc EXCEPT ![t] = "shut_rd"]
  /\ Enter(t, BindingsReaders, BindingsWriters, FALSE)
  /\ UNCHANGED <<registryVars, channelVars, runVars, callVars, frameVars,
                 ret, fatal>>

\* A Shutdown that takes every bound object for a Stoppable.
ShutdownOutcomeStopAll(m) == "stop"

\* stoppable, ok := m.(Stoppable): panic when !ok, else stoppable.Stop().
ShutdownOutcome(m) == IF Stoppable(m) THEN "stop" ELSE "panic"

ShutdownInvoke(t) ==
  /\ fatal = "none" /\ pc[t] = "shut_rd"
  /\ \E m \in ReadOf(t, At(bindings, args[t][idx[t]]), Objects \cup {Nil}) :
       /\ seen' = [seen EXCEPT ![t] = Append(seen[t], m)]
       /\ IF ShutdownOutcome(m) = "stop"
            THEN /\ pc' = [pc EXCEPT ![t] = "shut_stop"]
                 /\ Invoke(t, idx[t])
                 /\ stopCalls' = stopCalls \cup {args[t][idx[t]]}
                 /\ UNCHANGED fatal
            ELSE /\ Panic(t, "NotStoppable")
                 /\ UNCHANGED <<log, stopCalls>>
  /\ Leave(t)
  /\ UNCHANGED <<registryVars, channelVars, running, callVars, args, idx,
                 ret, raced>>

\* A Shutdown that panics on the error Stop returned.
StopOutcomeFatal(err) == IF err # "nil" THEN "panic" ELSE "next"

\* What the loop does with the error Stop returned: it is logged.
StopOutcome(err) == "next"

StopReturn(t) ==
  /\ fatal = "none" /\ pc[t] = "shut_stop"
  /\ \E err \in Results :
       /\ Returned(t, err)
       /\ IF StopOutcome(err) = "next"
            THEN /\ pc' = [pc EXCEPT ![t] =
                             AfterLoop(idx[t] + 1, args[t], "shut_loop", "shut_send")]
                 /\ idx' = [idx EXCEPT ![t] = idx[t] + 1]
                 /\ shutdownsDone' = IF idx[t] + 1 > Len(args[t])
                                       THEN shutdownsDone + 1 ELSE shutdownsDone
                 /\ UNCHANGED fatal
            ELSE /\ Panic(t, "StopError")
                 /\ UNCHANGED <<idx, shutdownsDone>>
  /\ UNCHANGED <<registryVars, channelVars, runVars, nStarts, nShutdowns,
                 args, seen, ret, racy, raced>>

\* c.stopped <- struct{}{} at the end of Shutdown.
ShutdownSend(t) ==
  /\ fatal = "none" /\ pc[t] = "shut_send"
  /\ CanSend(stopped)
  /\ stopped' = stopped + 1
  /\ shutSends' = shutSends + 1
  /\ Return(t, "Shutdown", Nil, Nil)
  /\ UNCHANGED <<registryVars, stopSigs, sig, waiting, sending, sigSends,
                 runVars, callVars, fatal, racy, raced>>

\* ------------------------------------------------------------- specifications

\* The goroutine that configures the container (main, in the README).
Main == "t1"

\* The goroutine that calls Shutdown (the signal handler, in the README).
Stopper == "t2"

\* Goroutines binding and resolving modules.
BindNext ==
  \/ \E t \in Tasks, n \in Names, o \in Objects : BindCall(t, n, o)
  \/ \E t \in Tasks : Bind(t)
  \/ \E t \in Tasks, n \in Names : ResolveCall(t, n)
  \/ \E t \in Tasks : Resolve(t)
  \/ MapFault

SpecBind == NewContainer /\ [][BindNext]_vars

\* Main setting the module configs while goroutines read them.
ConfigNext ==
  \/ \E configs \in SeqsUpTo(ModuleConfig, MaxBatch) :
       SetModuleGlobalConfigCall(Main, configs)
  \/ SetConfigAssert(Main)
  \/ SetConfigStore(Main)
  \/ SetConfigLoad(Main)
  \/ \E t \in Tasks, k \in Keys : GetGlobalConfigCall(t, k)
  \/ \E t \in Tasks : GetGlobalConfig(t)
  \/ MapFault

SpecConfig == NewContainer /\ [][ConfigNext]_vars

\* Main filling both maps and looking names and keys up, one call after
\* another.
RegistryNext ==
  \/ \E n \in Names, o \in Objects : BindCall(Main, n, o)
  \/ Bind(Main)
  \/ \E configs \in SeqsUpTo(ModuleConfig, MaxBatch) :
       SetModuleGlobalConfigCall(Main, configs)
  \/ SetConfigAssert(Main)
  \/ SetConfigStore(Main)
  \/ SetConfigLoad(Main)
  \/ \E n \in Names : ResolveCall(Main, n)
  \/ Resolve(Main)
  \/ \E k \in Keys : GetGlobalConfigCall(Main, k)
  \/ GetGlobalConfig(Main)

SpecRegistry == NewContainer /\ [][RegistryNext]_vars

\* The maps the caller's Bind calls can have built.
Bound == [Names -> Objects \cup {Nil}]

Bindable == Container(Bound, {{}})

Lists == SeqsUpTo(Names, MaxList)

\* Init over the bound modules.
InitNext ==
  \/ \E modules \in Lists : InitCall(Main, modules)
  \/ InitLookup(Main)
  \/ InitInvoke(Main)
  \/ InitReturn(Main)
  \/ InitDone(Main)

SpecInit == Bindable /\ [][InitNext]_vars

\* Start over the bound modules, no stop signal registered and no Shutdown
\* called: the call fails or stays at its wait.
StartNext ==
  \/ \E modules \in Lists : StartCall(Main, modules)
  \/ StartLookup(Main)
  \/ StartLaunch(Main)
  \/ RunReturn

SpecStart == Bindable /\ [][StartNext]_vars

\* Shutdown over the bound modules.
ShutdownNext ==
  \/ \E modules \in Lists : ShutdownCall(Stopper, modules)
  \/ ShutdownLookup(Stopper)
  \/ ShutdownInvoke(Stopper)
  \/ StopReturn(Stopper)
  \/ ShutdownSend(Stopper)

SpecShutdown == Bindable /\ [][ShutdownNext]_vars

\* Main in Start, the stop signals and their watchers, the modules' Run
\* goroutines, and the stopper in Shutdown, all together.
Modules == {m \in Bound : m["a"] = "svc" /\ m["b"] \in {"srv", "db", Nil}}

\* The sets of stop signals registered before Start.
Registrations == {{}, {"sigint"}, Signals}

\* The container with its modules bound and its stop signals registered.
Registered == Container(Modules, Registrations)

\* The lists handed to Start and Shutdown: bound names, each listed once.
ModuleLists ==
  {l \in SeqsUpTo(Names, Cardinality(Names)) :
     \A i, j \in 1..Len(l) : l[i] = l[j] => i = j}

\* The three lifecycle calls over the bound modules, made by Main one
\* after another in any order.
PhasesNext ==
  \/ \E modules \in Lists : InitCall(Main, modules)
  \/ InitLookup(Main)
  \/ InitInvoke(Main)
  \/ InitReturn(Main)
  \/ InitDone(Main)
  \/ \E modules \in Lists : StartCall(Main, modules)
  \/ StartLookup(Main)
  \/ StartLaunch(Main)
  \/ StartReturn(Main)
  \/ RunReturn
  \/ \E modules \in Lists : ShutdownCall(Main, modules)
  \/ ShutdownLookup(Main)
  \/ ShutdownInvoke(Main)
  \/ StopReturn(Main)
  \/ ShutdownSend(Main)

SpecPhases == Bindable /\ [][PhasesNext]_vars

\* Init over modules whose Init calls the registry back (resolving a
\* dependency, reading a config, binding a helper that has no lifecycle
\* method), while a second goroutine resolves.
NestedNext ==
  \/ \E modules \in ModuleLists : InitCall(Main, modules)
  \/ InitLookup(Main)
  \/ InitInvoke(Main)
  \/ \E n \in Names : InnerBindCall(Main, n, "cfg")
  \/ InnerBind(Main)
  \/ \E n \in Names : InnerResolveCall(Main, n)
  \/ InnerResolve(Main)
  \/ \E k \in Keys : InnerGetConfigCall(Main, k)
  \/ InnerGetConfig(Main)
  \/ InitReturn(Main)
  \/ InitDone(Main)
  \/ \E n \in Names : ResolveCall(Stopper, n)
  \/ Resolve(Stopper)
  \/ MapFault

\* The config map after SetModuleGlobalConfig of a valid "db" entry.
DbConfig == [k \in Keys |-> IF k = "db" THEN "ok" ELSE Nil]

SpecNested == Configured(Modules, {{}}, {DbConfig}) /\ [][NestedNext]_vars

LifeNext ==
  \/ \E modules \in ModuleLists : StartCall(Main, modules)
  \/ StartLookup(Main)
  \/ StartLaunch(Main)
  \/ StartReturn(Main)
  \/ \E s \in Signals : SignalFire(s)
  \/ \E s \in Signals : WatcherReceive(s)
  \/ WatcherSend
  \/ RunReturn
  \/ \E modules \in ModuleLists : ShutdownCall(Stopper, modules)
  \/ ShutdownLookup(Stopper)
  \/ ShutdownInvoke(Stopper)
  \/ StopReturn(Stopper)
  \/ ShutdownSend(Stopper)

SpecLife == Registered /\ [][LifeNext]_vars

\* The scheduler runs every goroutine that can take a step: the watchers,
\* the receive in Start and the send in Shutdown are not starved.  Signals,
\* callers and the modules' own methods take their steps when they choose.
LifeFairness ==
  /\ \A s \in Signals : WF_vars(WatcherReceive(s))
  /\ WF_vars(WatcherSend)
  /\ WF_vars(StartReturn(Main))
  /\ WF_vars(ShutdownSend(Stopper))

SpecLifeFair == SpecLife /\ LifeFairness

\* ------------------------------------------------------------- properties

Positions(l) == [i \in 1..Len(l) |-> l[i].pos]

UpTo(n) == [i \in 1..n |-> i]

\* A stop signal has fired.
Fired == \E s \in stopSigs : sig[s] # "idle"

InInit(t) == pc[t] \in {"init_loop", "init_rd", "init_call"}

InShutdown(t) == pc[t] \in {"shut_loop", "shut_rd", "shut_stop", "shut_send"}

\* Every method invoked before the last has returned: one at a time.
OneAtATime(t) == \A i \in 1..(Len(log[t]) - 1) : log[t][i].res # "called"

\* C1: a Start call that has returned did so after a registered stop signal
\* fired or after a Shutdown call finished its whole Stop sequence; launching
\* the modules or a Run returning does not make it return.
C1_StartReturnsOnlyOnShutdownIntent ==
  \A t \in Tasks : ret[t].op = "Start" => (Fired \/ shutdownsDone > 0)

\* Start has returned on a stop signal alone, its modules still running.
C1_Witness ==
  /\ ret[Main].op = "Start"
  /\ sigSends = 1 /\ shutdownsDone = 0
  /\ running > 0

C3_EventDeliveredAtMostOnce == sigSends + shutSends <= 1

\* C4: of the registered stop signals that fire, only the first has its
\* watcher deliver the event; a later one changes nothing in the container.
C4_OnlyFirstSignalDelivers == sigSends <= 1

\* C5: when SetModuleGlobalConfig returns an error, the config map is what
\* it was when the call began.
C5_SetConfigsAllOrNothing ==
  \A t \in Tasks :
    (ret[t].op = "SetModuleGlobalConfig" /\ ret[t].val = "error")
      => moduleConfigs = cfgBase

\* C6 as stated: when Start fails on a module that is not Runnable, it has
\* launched no module of its list.
C6_NothingLaunchedBeforeFailure ==
  \A t \in Tasks : (pc[t] = "panic" /\ fatal = "NotRunnable") => log[t] = <<>>

\* C6 amended: when Start fails on a module that is not Runnable, that
\* module is the first of the list that is not Runnable, exactly the modules
\* before it have been launched, in list order, and none at or after it.
C6_LaunchesStopAtFirstNonRunnable ==
  \A t \in Tasks :
    (pc[t] = "panic" /\ fatal = "NotRunnable") =>
      /\ Len(seen[t]) = idx[t]
      /\ ~Runnable(seen[t][idx[t]])
      /\ \A j \in 1..(idx[t] - 1) : Runnable(seen[t][j])
      /\ Positions(log[t]) = UpTo(idx[t] - 1)

\* Start has failed on the second module of its list with the first launched.
C6_Witness ==
  /\ pc[Main] = "panic" /\ fatal = "NotRunnable"
  /\ idx[Main] = 2 /\ Len(log[Main]) = 1
  /\ running > 0

\* C7: no goroutine is inside a write of a map while another goroutine is
\* inside a read or a write of that map.
C7_MapAccessExclusive ==
  \A t, u \in Tasks :
    t # u =>
      /\ ~(pc[t] \in BindingsWriters /\ InBindings(u))
      /\ ~(pc[t] \in ConfigsWriters /\ InConfigs(u))

\* C8: Init invokes the modules' Init one at a time in list order, skipping
\* what is not Initable; an Init that returns an error halts the call at
\* once, so when it fails at position K exactly the Initable modules of
\* positions 1..K have been invoked, once each, and nothing after K.
C8_InitHaltsAtFirstError ==
  \A t \in Tasks :
    /\ InInit(t) =>
         /\ OneAtATime(t)
         /\ \A i \in 1..Len(log[t]) : log[t][i].res # "error"
    /\ (pc[t] = "panic" /\ fatal = "InitError") =>
         /\ OneAtATime(t)
         /\ Len(seen[t]) = idx[t]
         /\ Positions(log[t]) =
              SelectSeq(UpTo(idx[t]), LAMBDA j : Initable(seen[t][j]))
         /\ log[t][Len(log[t])] = [pos |-> idx[t], res |-> "error"]
         /\ \A i \in 1..(Len(log[t]) - 1) : log[t][i].res = "nil"

\* Init has failed at the second module of its list, after the first's Init
\* returned nil.
C8_Witness ==
  /\ pc[Main] = "panic" /\ fatal = "InitError"
  /\ idx[Main] = 2 /\ Len(args[Main]) = 2
  /\ Len(log[Main]) = 2

\* C9: Shutdown invokes Stop one at a time in the caller's order, once per
\* listed position; an error Stop returns is not fatal, and the call reaches
\* its send on c.stopped with every listed module stopped.
C9_ShutdownBestEffortInOrder ==
  /\ fatal # "StopError"
  /\ \A t \in Tasks :
       InShutdown(t) =>
         /\ OneAtATime(t)
         /\ Positions(log[t]) =
              UpTo(CASE pc[t] = "shut_stop" -> idx[t]
                     [] pc[t] = "shut_send" -> Len(args[t])
                     [] OTHER -> idx[t] - 1)
         /\ (log[t] # <<>> /\ log[t][Len(log[t])].res = "called") <=> pc[t] = "shut_stop"

\* Shutdown is at its send after the first module's Stop returned an error
\* and the second's returned nil.
C9_Witness ==
  /\ pc[Stopper] = "shut_send"
  /\ Len(log[Stopper]) = 2
  /\ log[Stopper][1].res = "error"
  /\ log[Stopper][2].res = "nil"

\* C10: as long as no two map accesses have raced, a Resolve that returns
\* returns the object of the latest Bind of its name, and a Bind changes
\* what no other name resolves to.
C10_ResolveReturnsLatestBind ==
  [][\A t \in Tasks :
       /\ (pc[t] = "resolve_rd" /\ pc'[t] = "idle" /\ ~raced)
            => ret'[t].val = lastBind[args[t][1]]
       /\ (pc[t] = "bind_wr" /\ pc'[t] = "idle" /\ ~raced)
            => /\ Lookup(bindings', args[t][1]) = args[t][2]
               /\ \A n \in Names \ {args[t][1]} :
                    Lookup(bindings', n) = Lookup(bindings, n)]_vars

\* A name bound to one object by one goroutine has been bound to another by
\* a second goroutine, whose Resolve then returned the second object.
C10_Witness ==
  \E t, u \in Tasks, n \in Names :
    /\ t # u /\ ~raced
    /\ ret[u].op = "Bind" /\ ret[u].arg = n
    /\ ret[t].op = "Resolve" /\ ret[t].arg = n
    /\ ret[t].val = lastBind[n]
    /\ ret[u].val # lastBind[n]

\* C11: a Resolve of a name no Bind was given, and a GetGlobalConfig of a key
\* no SetModuleGlobalConfig was given, end in the fatal NotFound condition
\* and return nothing, whatever calls came before and whatever the other
\* map holds under the same string.
C11_UnboundLookupsFail ==
  [][\A t \in Tasks :
       /\ (pc[t] = "resolve_rd" /\ pc'[t] # "resolve_rd" /\ ~raced
             /\ lastBind[args[t][1]] = Nil)
            => (pc'[t] = "panic" /\ fatal' = "NotFound" /\ ret'[t] = NoRet)
       /\ (pc[t] = "getcfg_rd" /\ pc'[t] # "getcfg_rd" /\ ~raced
             /\ args[t][1] \notin setKeys)
            => (pc'[t] = "panic" /\ fatal' = "NotFound" /\ ret'[t] = NoRet)]_vars

\* GetGlobalConfig of a string has failed with NotFound although a module is
\* bound under that string and other keys have been set.
C11_Witness ==
  /\ pc[Main] = "panic" /\ fatal = "NotFound"
  /\ args[Main] = <<"a">>
  /\ lastBind["a"] # Nil /\ bindings["a"] # Nil
  /\ setKeys = {"db"} /\ moduleConfigs["db"] # Nil

\* The objects the Init loop of t has met at the positions it has passed.
Passed(t) == [j \in 1..Len(seen[t]) |-> At(bindings, args[t][j])]

\* C12: an Init call that meets a bound module which is not Initable goes on
\* without failing and invokes nothing on it: at every point of the call
\* the positions invoked are exactly the Initable ones among those passed,
\* in list order, and the call fails only on an error an Init returned.
C12_InitSkipsNonInitable ==
  \A t \in Tasks :
    (InInit(t) \/ (pc[t] = "panic" /\ fatal = "InitError")) =>
      /\ seen[t] = Passed(t)
      /\ Len(seen[t]) = (IF pc[t] \in {"init_loop", "init_rd"} THEN idx[t] - 1 ELSE idx[t])
      /\ Positions(log[t]) =
           SelectSeq(UpTo(Len(seen[t])), LAMBDA j : Initable(seen[t][j]))
      /\ \A i \in 1..Len(log[t]) :
           log[t][i].res = "error" => (i = Len(log[t]) /\ pc[t] = "panic")
      /\ pc[t] = "panic" => log[t] # <<>> /\ log[t][Len(log[t])].res = "error"

\* Init is past the end of a list of three whose second module is bound and
\* not Initable: the first and the third have had their Init invoked.
C12_Witness ==
  /\ pc[Main] = "init_loop" /\ fatal = "none"
  /\ Len(args[Main]) = 3 /\ idx[Main] = 4
  /\ seen[Main][2] # Nil /\ ~Initable(seen[Main][2])
  /\ Positions(log[Main]) = <<1, 3>>

\* C13: a step that invokes a module's Stop is a step of a Shutdown call at
\* a position of its list that names that module; a stop signal firing, a
\* watcher's send, Start returning and a Run returning invoke no Stop.
C13_StopOnlyInShutdown ==
  [][stopCalls' # stopCalls =>
       \E t \in Tasks :
         /\ pc[t] = "shut_rd" /\ pc'[t] = "shut_stop"
         /\ idx[t] \in 1..Len(args[t])
         /\ stopCalls' = stopCalls \cup {args[t][idx[t]]}]_vars

\* Start has returned on a stop signal with no Stop invoked by then, and a
\* Shutdown call made afterwards is inside the Stop of the module it names.
C13_Witness ==
  /\ ret[Main].op = "Start" /\ Fired /\ sigSends = 1 /\ shutSends = 0
  /\ pc[Stopper] = "shut_stop"
  /\ nShutdowns = 1
  /\ stopCalls = {args[Stopper][1]} /\ idx[Stopper] = 1

InStart(t) == pc[t] \in {"start_loop", "start_rd", "start_wait"}

\* C14: Start launches its modules in list order and waits for none of
\* them: whatever the goroutines launched so far are doing, the loop can
\* take its next step, no launch is ever waited for, and Start is at its
\* wait with every listed module launched.
C14_StartLaunchesWithoutWaiting ==
  \A t \in Tasks :
    InStart(t) =>
      /\ Positions(log[t]) = UpTo(idx[t] - 1)
      /\ \A i \in 1..Len(log[t]) : log[t][i].res = "called"
      /\ pc[t] = "start_wait" => Positions(log[t]) = UpTo(Len(args[t]))
      /\ (pc[t] = "start_loop" /\ fatal = "none") => ENABLED StartLookup(t)
      /\ (pc[t] = "start_rd" /\ fatal = "none") => ENABLED StartLaunch(t)

\* Start is at its wait with three modules launched and none of their Run
\* calls returned.
C14_Witness ==
  /\ pc[Main] = "start_wait" /\ fatal = "none"
  /\ Len(args[Main]) = 3 /\ Len(log[Main]) = 3
  /\ running = 3

\* C15: Shutdown invokes Stop on Stoppable modules only, and when it meets
\* a listed module that is not Stoppable it fails there: the modules before
\* it have had their Stop invoked and returned, in list order, none at or
\* after it has, and the call has sent nothing on c.stopped, so a Start
\* waiting with no stop signal delivered and no earlier Shutdown finds the
\* channel empty.
C15_ShutdownFailsAtNonStoppable ==
  \A t \in Tasks :
    /\ InShutdown(t) =>
         \A i \in 1..Len(log[t]) : Stoppable(seen[t][log[t][i].pos])
    /\ (pc[t] = "panic" /\ fatal = "NotStoppable") =>
         /\ Len(seen[t]) = idx[t]
         /\ ~Stoppable(seen[t][idx[t]])
         /\ \A j \in 1..(idx[t] - 1) : Stoppable(seen[t][j])
         /\ Positions(log[t]) = UpTo(idx[t] - 1)
         /\ \A i \in 1..Len(log[t]) : log[t][i].res \in Results
         /\ shutSends = nShutdowns - 1
         /\ (sigSends = 0 /\ nShutdowns = 1) => stopped = 0

\* Shutdown has failed at the second module of its list, after the first's
\* Stop returned, while Start waits with no stop signal fired.
C15_Witness ==
  /\ pc[Stopper] = "panic" /\ fatal = "NotStoppable"
  /\ idx[Stopper] = 2 /\ Len(log[Stopper]) = 1
  /\ pc[Main] = "start_wait" /\ ~Fired /\ stopSigs # {}
  /\ stopped = 0 /\ nShutdowns = 1

InInner(t) == pc[t] \in {"inner_bind_wr", "inner_resolve_rd", "inner_getcfg_rd"}

\* The goroutine is inside a method of a module.
InModule(t) == pc[t] \in {"init_call", "shut_stop"} \/ InInner(t)

\* C16: c.lock is free whenever a module's Init, Run or Stop is executing,
\* and a registry call made from inside a module's Init is never held up:
\* it can start and it can complete in every state, whatever the other
\* goroutines are doing in the registry.
C16_NoLockAcrossModuleCode ==
  /\ ((\E t \in Tasks : InModule(t)) \/ running > 0) => lock = "free"
  /\ \A t \in Tasks :
       fatal = "none" =>
         /\ pc[t] = "init_call" =>
              /\ \A n \in Names : ENABLED InnerResolveCall(t, n)
              /\ \A n \in Names, o \in Objects : ENABLED InnerBindCall(t, n, o)
              /\ \A k \in Keys : ENABLED InnerGetConfigCall(t, k)
         /\ pc[t] = "inner_resolve_rd" => ENABLED InnerResolve(t)
         /\ pc[t] = "inner_bind_wr" => ENABLED InnerBind(t)
         /\ pc[t] = "inner_getcfg_rd" => ENABLED InnerGetConfig(t)

\* A module's Init has bound a helper and is back in its own code while
\* the second goroutine is inside a Resolve.
C16_Witness ==
  /\ pc[Main] = "init_call" /\ fatal = "none"
  /\ lastBind["b"] = "cfg" /\ bindings["b"] = "cfg"
  /\ pc[Stopper] = "resolve_rd"
  /\ lock = "free"

\* C17: a Shutdown call whose Stop calls have all returned, and which is at
\* its send on c.stopped, eventually returns (or the process has died),
\* whatever stop signals fired and whatever Start and Shutdown calls were
\* made before.
C17_ShutdownReturns ==
  (pc[Stopper] = "shut_send") ~> (ret[Stopper].op = "Shutdown" \/ fatal # "none")

\* C18: a Run that returns an error kills the process and a Run that
\* returns nil does not; and the return of a Run, at whatever point of the
\* container's life, changes nothing else: nothing is sent on c.stopped, no
\* caller moves, no Stop is invoked, no Shutdown begins.
C18_RunReturnOnlyFatalOnError ==
  /\ RunOutcome("error") = "RunError" /\ RunOutcome("nil") = "none"
  /\ [][running' < running =>
          /\ running' = running - 1
          /\ fatal' \in {RunOutcome(err) : err \in Results}
          /\ UNCHANGED <<channelVars, callVars, stopCalls, pc, ret, frameVars,
                         registryVars>>]_vars

\* A Run has returned an error after Start returned on a stop signal and
\* while Shutdown is inside a module's Stop.
C18_Witness ==
  /\ fatal = "RunError"
  /\ ret[Main].op = "Start" /\ sigSends = 1
  /\ pc[Stopper] = "shut_stop"

Unbound(t, j) == At(bindings, args[t][j]) = Nil

\* C20: no lifecycle call raises NotFound and none invokes or launches
\* anything at a name that is not bound; Init goes past such a name and
\* never fails at it, while Start and Shutdown never get past one: they end
\* there in the not-runnable and the not-stoppable panic.
C20_UnboundNamesInLifecycle ==
  /\ fatal # "NotFound"
  /\ \A t \in Tasks :
       /\ \A i \in 1..Len(log[t]) : ~Unbound(t, log[t][i].pos)
       /\ (pc[t] = "panic" /\ fatal = "InitError") => ~Unbound(t, idx[t])
       /\ (InInit(t) /\ pc[t] # "init_call") =>
            Positions(log[t]) =
              SelectSeq(UpTo(Len(seen[t])), LAMBDA j : Initable(At(bindings, args[t][j])))
       /\ (InStart(t) \/ InShutdown(t)
             \/ (pc[t] = "panic" /\ fatal \in {"NotRunnable", "NotStoppable"}))
            => \A j \in 1..(idx[t] - 1) : ~Unbound(t, j)

\* Init is past the end of a list of three whose second name is not bound:
\* the first and the third module have had their Init invoked.
C20_Witness ==
  /\ pc[Main] = "init_loop" /\ fatal = "none"
  /\ Len(args[Main]) = 3 /\ idx[Main] = 4
  /\ Unbound(Main, 2)
  /\ Positions(log[Main]) = <<1, 3>>

====
